---------------------------- MODULE Spec2Model ----------------------------
(***************************************************************************)
(* Chunked transfer of binary buffers in peerjs (src/lib/util.ts).         *)
(*                                                                         *)
(* Util.chunk splits an ArrayBuffer into records                           *)
(*   { __peerData, n, data, total }                                        *)
(* of at most util.chunkedMTU bytes each; concatArrayBuffers joins byte    *)
(* arrays.  The receiving side (the Reassembler of the design document)    *)
(* is modelled from the design document, since util.ts holds only the      *)
(* sending side and the concatenation helper.                              *)
(*                                                                         *)
(* A byte buffer is a sequence of bytes, 1-indexed here: offset k of the   *)
(* source is position k + 1.  util.chunkedMTU is 16300 in the source; the  *)
(* model runs the same code at small MTUs (1..MaxMTU) on small buffers,    *)
(* which the code never tells apart from large ones: it reads lengths and  *)
(* copies bytes, never inspects them.                                      *)
(***************************************************************************)
EXTENDS Integers, Sequences, FiniteSets, TLC

(***************************************************************************)
(* Bounds of the model.                                                    *)
(***************************************************************************)
MaxLen == 5           \* longest buffer handed to chunk
MaxSendLen == 3       \* longest buffer sent while the receiver runs
MaxMTU == 2           \* positive MTUs are 1..MaxMTU
MaxCalls == 2         \* chunk calls in one behaviour
MaxIter == 3          \* iterations followed when the loop cannot end

(***************************************************************************)
(* The Util instances: `util`, the exported singleton (line 210), and a    *)
(* second instance made with `new Util()` (the class is exported).         *)
(***************************************************************************)
util == "util"

Instances == {util, "other"}

\* the counter started at 0
InitDataCount_zero == 1 - 1

\* line 131: private _dataCount: number = 1
InitDataCount == 1

(***************************************************************************)
(* The buffers handed to chunk: every length 0..MaxLen.  The bytes of the  *)
(* buffer of call number c are distinct within the buffer and differ from  *)
(* those of every other call's buffer, so that a byte out of place or      *)
(* taken from another transfer shows.                                      *)
(***************************************************************************)
ByteAt(c, k) == (16 * c + k) % 256

Buffer(c, len) == [k \in 1..len |-> ByteAt(c, k)]

PositiveMTUs == 1..MaxMTU

NonPositiveMTUs == {-1, 0}

VARIABLES
    chunkedMTU,   \* util.chunkedMTU
    dataCount,    \* _dataCount of each instance
    ncalls,       \* chunk calls each instance has completed
    pc,           \* "idle", "loop" (inside chunk), "returned"
    self,         \* `this` of the running call
    blob,         \* chunk's argument
    size,         \* chunk's locals
    total,
    index,
    start,
    chunks,
    result,       \* chunk's return value
    channel,      \* records sent and not yet submitted
    sent,         \* transfer id -> buffer, of the transfers under way
    pending,      \* Reassembler: transfer id -> PendingTransfer
    out,          \* what the last submit returned
    completed     \* transfer ids submit has returned a buffer for

vars == <<chunkedMTU, dataCount, ncalls, pc, self, blob, size, total, index,
          start, chunks, result, channel, sent, pending, out, completed>>

chunkVars == <<chunkedMTU, dataCount, ncalls, pc, self, blob, size, total,
               index, start, chunks, result>>

Min(a, b) == IF a < b THEN a ELSE b

Max(a, b) == IF a > b THEN a ELSE b

\* Math.floor in place of Math.ceil
ceilDiv_floor(sz, mtu) == sz \div mtu

(***************************************************************************)
(* Math.ceil(size / mtu) on JavaScript numbers, size >= 0.  Division by    *)
(* zero gives Infinity (size > 0) or NaN (0 / 0), and Math.ceil keeps      *)
(* both.                                                                   *)
(***************************************************************************)
ceilDiv(sz, mtu) ==
    IF mtu > 0 THEN (sz + mtu - 1) \div mtu
    ELSE IF mtu < 0 THEN 0 - (sz \div (0 - mtu))
    ELSE IF sz > 0 THEN "Infinity" ELSE "NaN"

(***************************************************************************)
(* ArrayBuffer.prototype.slice(begin, end): a copy of the bytes at offsets *)
(* [begin, end); a negative index counts from the end of the buffer, and   *)
(* both are clamped to [0, byteLength].                                    *)
(***************************************************************************)
relIndex(len, i) == IF i < 0 THEN Max(len + i, 0) ELSE Min(i, len)

\* the slice taken one byte short: blob.slice(start, end - 1)
slice_shortByOne(buf, begin, end) ==
    LET first == relIndex(Len(buf), begin)
        final == relIndex(Len(buf), end - 1)
    IN  [k \in 1..Max(final - first, 0) |-> buf[first + k]]

slice(buf, begin, end) ==
    LET first == relIndex(Len(buf), begin)
        final == relIndex(Len(buf), end)
    IN  [k \in 1..Max(final - first, 0) |-> buf[first + k]]

\* the stride one byte over the MTU
sliceEnd_tooLong(sz, st, mtu) == IF sz < st + mtu + 1 THEN sz ELSE st + mtu + 1

\* line 144: const end = Math.min(size, start + util.chunkedMTU)
sliceEnd(sz, st, mtu) == Min(sz, st + mtu)

\* sequence numbers counted from 1
ChunkRecord_oneBased(dc, i, b, tot) ==
    [__peerData |-> dc, n |-> i + 1, data |-> b, total |-> tot]

\* lines 147-152: the chunk record
ChunkRecord(dc, i, b, tot) == [__peerData |-> dc, n |-> i, data |-> b, total |-> tot]

\* while (start <= size)
loopCond_inclusive(st, sz) == st <= sz

\* line 143: while (start < size)
loopCond(st, sz) == st < sz

\* one counter shared by all instances (a static field)
bumpDataCount_shared(dc, u) == [v \in DOMAIN dc |-> dc[v] + 1]

\* line 160: this._dataCount++
bumpDataCount(dc, u) == [dc EXCEPT ![u] = @ + 1]

\* line 145: blob.slice copies; the argument keeps its bytes
blobAfterSlice(buf, begin, end) == buf

(***************************************************************************)
(* concatArrayBuffers (lines 211-223): a zero-filled array of the summed   *)
(* length, each buffer written at the running offset.                      *)
(***************************************************************************)
RECURSIVE sumLengths(_)
sumLengths(bufs) ==
    IF bufs = <<>> THEN 0 ELSE Len(Head(bufs)) + sumLengths(Tail(bufs))

\* Uint8Array.prototype.set(buf, offset)
setAt(arr, buf, offset) ==
    [k \in 1..Len(arr) |->
        IF k > offset /\ k <= offset + Len(buf) THEN buf[k - offset] ELSE arr[k]]

\* offset = buf.byteLength
nextOffset_assign(offset, buf) == Len(buf)

\* line 220: offset += buf.byteLength
nextOffset(offset, buf) == offset + Len(buf)

RECURSIVE concatFrom(_, _, _)
concatFrom(arr, bufs, offset) ==
    IF bufs = <<>> THEN arr
    ELSE concatFrom(setAt(arr, Head(bufs), offset), Tail(bufs),
                    nextOffset(offset, Head(bufs)))

concatArrayBuffers(bufs) ==
    concatFrom([k \in 1..sumLengths(bufs) |-> 0], bufs, 0)

(***************************************************************************)
(* Initial state: the instances as constructed, no call running.           *)
(***************************************************************************)
NoValue == [status |-> "none", id |-> 0, value |-> <<>>]

InitCommon ==
    /\ dataCount = [u \in Instances |-> InitDataCount]
    /\ ncalls = [u \in Instances |-> 0]
    /\ pc = "idle"
    /\ self = util
    /\ blob = <<>>
    /\ size = 0
    /\ total = 0
    /\ index = 0
    /\ start = 0
    /\ chunks = <<>>
    /\ result = <<>>
    /\ channel = {}
    /\ sent = <<>>
    /\ pending = <<>>
    /\ out = NoValue
    /\ completed = {}

Init == chunkedMTU \in PositiveMTUs /\ InitCommon

CallsMade == ncalls[util] + ncalls["other"]

NextBuffers(maxLen) == {Buffer(CallsMade, len) : len \in 0..maxLen}

(***************************************************************************)
(* chunk(blob), lines 133-163, one action per step of the call.            *)
(***************************************************************************)
\* lines 136-141
Call(u, b) ==
    /\ pc = "idle"
    /\ CallsMade < MaxCalls
    /\ pc' = "loop"
    /\ self' = u
    /\ blob' = b
    /\ size' = Len(b)
    /\ total' = ceilDiv(Len(b), chunkedMTU)
    /\ index' = 0
    /\ start' = 0
    /\ chunks' = <<>>
    /\ UNCHANGED <<chunkedMTU, dataCount, ncalls, result, channel, sent,
                   pending, out, completed>>

\* lines 143-158: one iteration of the loop
Step ==
    /\ pc = "loop"
    /\ loopCond(start, size)
    /\ LET end == sliceEnd(size, start, chunkedMTU)
           b == slice(blob, start, end)
       IN  /\ chunks' = Append(chunks, ChunkRecord(dataCount[self], index, b, total))
           /\ blob' = blobAfterSlice(blob, start, end)
           /\ start' = end
           /\ index' = index + 1
    /\ UNCHANGED <<chunkedMTU, dataCount, ncalls, pc, self, size, total,
                   result, channel, sent, pending, out, completed>>

\* lines 160-162: the loop has ended
Return ==
    /\ pc = "loop"
    /\ ~loopCond(start, size)
    /\ dataCount' = bumpDataCount(dataCount, self)
    /\ ncalls' = [ncalls EXCEPT ![self] = @ + 1]
    /\ result' = chunks
    /\ pc' = "returned"
    /\ UNCHANGED <<chunkedMTU, self, blob, size, total, index, start, chunks,
                   channel, sent, pending, out, completed>>

(***************************************************************************)
(* The transport (design document, sections 2 and 6): the caller takes     *)
(* the records chunk returned and sends each as a message of its own; the  *)
(* channel may deliver them in any order.  The connection modelled is the  *)
(* one fed by the singleton `util`; what another instance returns is       *)
(* consumed by its caller and goes nowhere here.  The call's locals are    *)
(* gone once its result is consumed.                                       *)
(***************************************************************************)
Records(rs) == {rs[k] : k \in 1..Len(rs)}

Send ==
    /\ pc = "returned"
    /\ pc' = "idle"
    /\ IF self = util /\ result # <<>>
       THEN /\ channel' = channel \cup Records(result)
            /\ sent' = (result[1].__peerData :> blob) @@ sent
       ELSE UNCHANGED <<channel, sent>>
    /\ self' = util
    /\ blob' = <<>>
    /\ size' = 0
    /\ total' = 0
    /\ index' = 0
    /\ start' = 0
    /\ chunks' = <<>>
    /\ result' = <<>>
    /\ UNCHANGED <<chunkedMTU, dataCount, ncalls, pending, out, completed>>

(***************************************************************************)
(* Reassembler.submit (design document, section 4.2).                      *)
(***************************************************************************)
Without(f, k) == [j \in DOMAIN f \ {k} |-> f[j]]

\* the payloads of a complete transfer, ordered by sequence
payloadsInOrder(received, tot) == [k \in 1..tot |-> received[k - 1]]

submitResult(pend, c) ==
    LET id == c.__peerData IN
    IF ~(0 <= c.n /\ c.n < c.total)
    THEN [pending |-> pend,
          out |-> [status |-> "MalformedChunk", id |-> id, value |-> <<>>]]
    ELSE IF id \in DOMAIN pend /\ pend[id].total # c.total
    THEN [pending |-> pend,
          out |-> [status |-> "InconsistentTransfer", id |-> id, value |-> <<>>]]
    ELSE LET old == IF id \in DOMAIN pend THEN pend[id].received ELSE <<>>
             received == (c.n :> c.data) @@ old
         IN  IF Cardinality(DOMAIN received) = c.total
             THEN [pending |-> Without(pend, id),
                   out |-> [status |-> "value", id |-> id,
                            value |-> concatArrayBuffers(
                                          payloadsInOrder(received, c.total))]]
             ELSE [pending |-> (id :> [total |-> c.total, received |-> received])
                                   @@ Without(pend, id),
                   out |-> NoValue]

Submit ==
    /\ \E c \in channel :
          LET r == submitResult(pending, c) IN
          /\ channel' = channel \ {c}
          /\ pending' = r.pending
          /\ out' = r.out
          /\ IF r.out.status = "value"
             THEN /\ completed' = completed \cup {r.out.id}
                  /\ sent' = Without(sent, r.out.id)
             ELSE UNCHANGED <<completed, sent>>
    /\ UNCHANGED chunkVars

(***************************************************************************)
(* The sending side: chunk called on either instance, on any buffer, and   *)
(* its result sent.                                                        *)
(***************************************************************************)
Next ==
    \/ \E u \in Instances, b \in NextBuffers(MaxLen) : Call(u, b)
    \/ Step
    \/ Return
    \/ Send

Spec == Init /\ [][Next]_vars

\* chunk is synchronous: once called it runs to its return
FairSpec == Spec /\ WF_vars(Step) /\ WF_vars(Return)

(***************************************************************************)
(* Sender and receiver of one connection: `util` fragments and sends, the  *)
(* channel delivers the records in any order, between and during calls.    *)
(***************************************************************************)
ReassemblyNext ==
    \/ \E b \in NextBuffers(MaxSendLen) : Call(util, b)
    \/ Step
    \/ Return
    \/ Send
    \/ Submit

ReassemblySpec == Init /\ [][ReassemblyNext]_vars

(***************************************************************************)
(* util.chunkedMTU set to a non-positive value (the field is read-only to  *)
(* the type checker alone).  The loop may then never end; the model        *)
(* follows it for MaxIter iterations.                                      *)
(***************************************************************************)
BadMTUInit == chunkedMTU \in NonPositiveMTUs /\ InitCommon

BadMTUNext ==
    \/ \E u \in Instances, b \in NextBuffers(MaxLen) : Call(u, b)
    \/ (index < MaxIter /\ Step)
    \/ Return
    \/ Send

BadMTUSpec == BadMTUInit /\ [][BadMTUNext]_vars

(***************************************************************************)
(* What the claims are stated with.                                        *)
(***************************************************************************)
\* the least q with q * m >= n: ceil(n / m) for n >= 0 and m > 0
Ceiling(n, m) == CHOOSE q \in 0..n : q * m >= n /\ (q = 0 \/ (q - 1) * m < n)

\* the positions of the records rs, ordered by ascending sequence number
RECURSIVE ascendingByN(_, _)
ascendingByN(rs, I) ==
    IF I = {} THEN <<>>
    ELSE LET i == CHOOSE i \in I : \A j \in I : rs[i].n <= rs[j].n
         IN  <<i>> \o ascendingByN(rs, I \ {i})

payloadsByN(rs) ==
    LET order == ascendingByN(rs, DOMAIN rs)
    IN  [k \in 1..Len(order) |-> rs[order[k]].data]

\* the bytes of buf at offsets [lo, hi)
bytesAt(buf, lo, hi) == [j \in 1..(hi - lo) |-> buf[lo + j]]

Returned == pc = "returned"

(***************************************************************************)
(* C1: when chunk returns, the payloads of its records, taken in ascending *)
(* order of n and concatenated, are the buffer it was given: the same      *)
(* length and the same byte at every offset.                               *)
(***************************************************************************)
C1_RoundTrip ==
    Returned => concatArrayBuffers(payloadsByN(result)) = blob

C1_Witness ==
    /\ Returned
    /\ Len(result) = 3
    /\ Len(result[3].data) < chunkedMTU
    /\ concatArrayBuffers(payloadsByN(result)) = blob

(***************************************************************************)
(* C2: chunk of a buffer of length 0 returns exactly one record, with      *)
(* n = 0, total = 1 and an empty payload.                                  *)
(***************************************************************************)
C2_EmptyBufferOneChunk ==
    (Returned /\ size = 0) =>
        /\ Len(result) = 1
        /\ result[1].n = 0
        /\ result[1].total = 1
        /\ result[1].data = <<>>

(***************************************************************************)
(* C3: the k-th call of chunk on an instance tags every record it makes    *)
(* with transfer id k: the counter starts at 1 and is one more than the    *)
(* number of calls completed, whatever the number of records, and the      *)
(* records sent under one id are those of one call.                        *)
(***************************************************************************)
C3_TransferIds ==
    /\ \A u \in Instances : dataCount[u] = ncalls[u] + 1
    /\ pc = "loop" =>
          \A k \in 1..Len(chunks) : chunks[k].__peerData = ncalls[self] + 1
    /\ Returned =>
          \A k \in 1..Len(result) : result[k].__peerData = ncalls[self]
    /\ \A c \in channel :
          /\ c.__peerData \in 1..ncalls[util]
          /\ Cardinality({d \in channel : d.__peerData = c.__peerData}) = c.total

C3_Witness ==
    /\ Returned
    /\ ncalls[self] = 2
    /\ Len(result) >= 2
    /\ \A k \in 1..Len(result) : result[k].__peerData = 2
    /\ \E c \in channel : c.__peerData = 1

C5_SequenceNumbers ==
    Returned =>
        /\ Len(result) = Ceiling(size, chunkedMTU)
        /\ \A k \in 1..Len(result) : result[k].n = k - 1

C5_Witness ==
    /\ Returned
    /\ Len(result) = 3
    /\ result[1].n = 0 /\ result[2].n = 1 /\ result[3].n = 2

(***************************************************************************)
(* C6: all records of a result carry the same total, which is the number   *)
(* of records, and 0 <= n < total; a buffer of 1 to MTU - 1 bytes gives    *)
(* one record with total = 1.                                              *)
(***************************************************************************)
C6_TotalField ==
    Returned =>
        /\ \A k \in 1..Len(result) :
              /\ result[k].total = Len(result)
              /\ 0 <= result[k].n
              /\ result[k].n < result[k].total
        /\ (1 <= size /\ size < chunkedMTU) =>
              (Len(result) = 1 /\ result[1].total = 1)

C6_Witness ==
    /\ Returned
    /\ 1 <= size /\ size < chunkedMTU
    /\ Len(result) = 1
    /\ result[1].total = 1

(***************************************************************************)
(* C7: the record of sequence i carries the bytes at offsets               *)
(* [i*m, min((i+1)*m, N)) of the buffer: no payload is longer than m, all  *)
(* but the last are exactly m long, and the lengths sum to N.              *)
(***************************************************************************)
C7_PayloadSlices ==
    Returned =>
        /\ \A k \in 1..Len(result) :
              LET i == result[k].n
                  lo == i * chunkedMTU
                  hi == Min((i + 1) * chunkedMTU, size)
              IN  /\ result[k].data = bytesAt(blob, lo, hi)
                  /\ Len(result[k].data) <= chunkedMTU
                  /\ k < Len(result) => Len(result[k].data) = chunkedMTU
        /\ sumLengths(payloadsByN(result)) = size

\* 5 bytes at MTU 2, as 40000 bytes at MTU 16300: two full payloads and a rest
C7_Witness ==
    /\ Returned
    /\ size = 5 /\ chunkedMTU = 2
    /\ Len(result) = 3
    /\ Len(result[1].data) = 2 /\ Len(result[2].data) = 2 /\ Len(result[3].data) = 1

(***************************************************************************)
(* C8: for a positive MTU chunk always returns: each iteration of its loop *)
(* moves start forward, it makes at most ceil(N/m) iterations, and a call  *)
(* under way reaches its return.                                           *)
(***************************************************************************)
C8_Termination ==
    /\ [][(pc = "loop" /\ pc' = "loop") =>
             (start' > start /\ index' <= Ceiling(size, chunkedMTU))]_vars
    /\ (pc = "loop" ~> Returned)

\* a call that made all of its ceil(5/1) = 5 iterations and returned
C8_Witness ==
    /\ Returned
    /\ size = 5 /\ chunkedMTU = 1
    /\ start = size
    /\ index = Ceiling(size, chunkedMTU)
    /\ index = 5

(***************************************************************************)
(* C9: whatever the order the records arrive in, and with other transfers  *)
(* in between, submit returns no value while records of the transfer are   *)
(* still to come, and on the last of them returns, once, the buffer that   *)
(* transfer was made from, and forgets the transfer; the transfers pending *)
(* beside it are left as they were.                                        *)
(***************************************************************************)
C9_Reassembly ==
    [][(channel' # channel /\ channel' \subseteq channel) =>
          LET c == CHOOSE c \in channel : c \notin channel'
              id == c.__peerData
          IN  /\ \A j \in DOMAIN pending \ {id} :
                    j \in DOMAIN pending' /\ pending'[j] = pending[j]
              /\ IF \E d \in channel' : d.__peerData = id
                 THEN /\ out' = NoValue
                      /\ id \in DOMAIN pending'
                      /\ c.n \in DOMAIN pending'[id].received
                      /\ id \notin completed'
                 ELSE /\ out'.status = "value"
                      /\ out'.id = id
                      /\ out'.value = sent[id]
                      /\ id \notin DOMAIN pending'
                      /\ id \notin completed]_vars

\* a transfer of three records is rebuilt while another, whose first record
\* has not arrived yet, is pending
C9_Witness ==
    /\ out.status = "value"
    /\ Len(out.value) = 3
    /\ \E id \in DOMAIN pending :
          /\ id # out.id
          /\ pending[id].received # <<>>
          /\ 0 \notin DOMAIN pending[id].received

(***************************************************************************)
(* C10: a call of chunk changes, besides its own locals, only the counter  *)
(* of the instance it runs on: its argument keeps its bytes, the MTU stays *)
(* as it is, and the counter of the other instance stays as it is; an      *)
(* instance that has made no call has its counter at 1.                    *)
(***************************************************************************)
C10_Frame ==
    [][/\ chunkedMTU' = chunkedMTU
       /\ pc = "loop" =>
             /\ blob' = blob
             /\ UNCHANGED <<channel, sent, pending, out, completed>>
       /\ \A u \in Instances :
             /\ dataCount'[u] # dataCount[u] => (pc = "loop" /\ u = self)
             /\ ncalls[u] = 0 => dataCount[u] = 1]_vars

C10_Witness ==
    /\ Returned
    /\ self = util
    /\ dataCount[util] = 3
    /\ dataCount["other"] = 1
    /\ blob = Buffer(1, 5)

=============================================================================
